---- MODULE Spec2Model ----
(***************************************************************************)
(* Model of torch/csrc/jit/script/init.cpp: the SugaredValue variants that *)
(* bridge Python objects and script Modules into the graph IR              *)
(* (PythonValue, ConstantPythonValue, MethodValue, ModuleValue) and the    *)
(* pythonResolver.  Every handler is an operator that maps its arguments   *)
(* and the caller's Method to an outcome: the value returned or the        *)
(* ErrorReport thrown, the Method as the handler leaves it, and the        *)
(* sequence of Python-interpreter accesses the handler performed.          *)
(***************************************************************************)
EXTENDS Integers, Sequences, FiniteSets, TLC

VARIABLES m, last

vars == <<m, last>>

(***************************************************************************)
(* Bounds of the model.                                                    *)
(***************************************************************************)
\* most inputs supplied to a call, and most inputs a Method declares
MaxArgs == 2
\* most outputs requested from a call, and most outputs a Method produces
MaxOutputs == 2
\* most keyword arguments (List<Attribute>) supplied to a call
MaxAttributes == 1
\* most nodes the compiler has inserted into the caller's graph before a handler runs
MaxEarlier == 1

(***************************************************************************)
(* Python objects (py::object).  type is the name of the object's type,   *)
(* id names the object (its identity), and a number is held as             *)
(* hi * 2^16 + lo with lo in 0..2^16-1 (Python's numbers are unbounded).   *)
(***************************************************************************)
Py(type, id, hi, lo) == [type |-> type, id |-> id, hi |-> hi, lo |-> lo]

py_torch == Py("module", "torch", 0, 0)
py_functional == Py("module", "torch.nn.functional", 0, 0)
py_math == Py("module", "math", 0, 0)
py_relu == Py("function", "relu", 0, 0)
py_linear == Py("Linear", "linear", 0, 0)
py_int == Py("int", "5", 0, 5)
py_bigint == Py("int", "2**31", 32768, 0)
py_float == Py("float", "2.0", 0, 2)
py_true == Py("bool", "True", 0, 1)
py_none == Py("NoneType", "None", 0, 0)
py_tuple == Py("tuple", "(1, 2, 3)", 0, 0)

PyObjects ==
  { py_torch, py_functional, py_math, py_relu, py_linear, py_int, py_bigint,
    py_float, py_true, py_none, py_tuple }

\* no py::object: a null handle, or the attribute lookup raised
NoPy == Py("", "", 0, 0)

\* py::isinstance<py::function>: PyCallable_Check (an nn.Module instance is callable)
isinstance_function(o) == o.type \in {"function", "Linear"}
\* py::isinstance<py::module>: PyModule_Check
isinstance_module(o) == o.type = "module"
\* py::isinstance(attr, torch.nn.Module)
isinstance_nn_Module(o) == o.type = "Linear"
\* py::isinstance<py::int_>: PyLong_Check, and Python's bool is a subclass of int
isinstance_int(o) == o.type \in {"int", "bool"}
\* py::isinstance<py::float_>: PyFloat_Check
isinstance_float(o) == o.type = "float"
\* py::isinstance<py::bool_>: PyBool_Check
isinstance_bool(o) == o.type = "bool"
\* py::object's conversion to bool in a condition: the handle is not null
handle_bool(o) == o # NoPy

\* the number a Python object holds, when it fits 32 bits
Radix == 65536
number(o) == o.hi * Radix + o.lo

\* py::cast<int32_t>: a cast_error when the number does not fit int32_t
Int32HiMin == -32768
Int32HiMax == 32767
cast_int32_fits(o) == o.hi >= Int32HiMin /\ o.hi <= Int32HiMax

(***************************************************************************)
(* Errors (ErrorReport), named by the text of their message.               *)
(***************************************************************************)
Error(msg, what, expected, actual) ==
  [msg |-> msg, what |-> what, expected |-> expected, actual |-> actual]

NoError == Error("", "", 0, 0)

(***************************************************************************)
(* Modules and Methods (script::Module, script::Method).                   *)
(***************************************************************************)
Fields == {"forward", "layer1"}

Method(n, k) == [num_inputs |-> n, num_outputs |-> k]
NoMethod == Method(-1, -1)
Methods == {Method(n, k) : n \in 0..MaxArgs, k \in 0..MaxOutputs}

\* the partial maps from names in S to values in V
MapsOver(S, V) == UNION {[D -> V] : D \in SUBSET S}

EmptyMap == [x \in {} |-> x]
Module(sm, ms, ps) == [modules |-> sm, methods |-> ms, parameters |-> ps]
\* a module as created: nothing registered
NoModule == Module(EmptyMap, EmptyMap, EmptyMap)

\* the methods a module of the model may hold
ModuleMethods == {Method(1, 1)}

\* modules without submodules, holding at most a method and a parameter "forward"
LeafModules ==
  { Module(EmptyMap, ms, ps) :
      ms \in MapsOver({"forward"}, ModuleMethods),
      ps \in {[f \in D |-> f] : D \in SUBSET {"forward"}} }

\* modules whose submodules are leaf modules
Modules ==
  { Module(sm, ms, ps) :
      sm \in MapsOver(Fields, LeafModules),
      ms \in MapsOver(Fields, ModuleMethods),
      ps \in {[f \in D |-> f] : D \in SUBSET Fields} }

find_module(module, field) == field \in DOMAIN module.modules
find_method(module, field) == field \in DOMAIN module.methods
find_parameter(module, field) == field \in DOMAIN module.parameters

(***************************************************************************)
(* The Method being compiled (the caller): the nodes of its graph in       *)
(* insertion order, the parameter slots registered as graph inputs, and    *)
(* the next unused Value.  Values 1..MaxArgs are the formal inputs.        *)
(***************************************************************************)
Node(kind, fn, cconv, inputs, outputs, scalar, val) ==
  [kind |-> kind, fn |-> fn, cconv |-> cconv, inputs |-> inputs,
   outputs |-> outputs, scalar |-> scalar, val |-> val]

\* Graph::insertNode
insertNode(g, n) == [g EXCEPT !.nodes = Append(@, n)]

\* Node::addOutput, k times: the Values created, in creation order
addOutputs(g, k) == [i \in 1..k |-> g.next_unique + i - 1]

\* the Method after k Values were created
takeUnique(g, k) == [g EXCEPT !.next_unique = @ + k]

\* Graph::createConstant followed by insertNode(n)->output()
createConstantNode(g, scalar, val) ==
  takeUnique(
    insertNode(g, Node("Constant", NoPy, <<>>, <<>>, <<g.next_unique>>, scalar, val)),
    1)

\* Method::get_or_add_parameter: the graph input of a slot, added on first use
get_or_add_parameter_value(g, slot) ==
  IF \E i \in 1..Len(g.member_inputs) : g.member_inputs[i].slot = slot
  THEN (CHOOSE e \in {g.member_inputs[i] : i \in 1..Len(g.member_inputs)} : e.slot = slot).value
  ELSE g.next_unique

get_or_add_parameter(g, slot) ==
  IF \E i \in 1..Len(g.member_inputs) : g.member_inputs[i].slot = slot
  THEN g
  ELSE takeUnique(
         [g EXCEPT !.member_inputs = Append(@, [slot |-> slot, value |-> g.next_unique])],
         1)

\* Method::emit_call_to: the callee inlined into the caller's graph
emit_call_to(g, callee, inputs) ==
  takeUnique(
    insertNode(g, Node("Call", NoPy, <<>>, inputs, addOutputs(g, callee.num_outputs), "", 0)),
    callee.num_outputs)

\* the outputs of the last node inserted
lastOutputs(g) == g.nodes[Len(g.nodes)].outputs

(***************************************************************************)
(* SugaredValues.                                                          *)
(***************************************************************************)
Sugared(kind, self, module, method, name, value) ==
  [kind |-> kind, self |-> self, module |-> module, method |-> method,
   name |-> name, value |-> value]

\* no SugaredValue: a nullptr, or nothing returned because the handler threw
NoValue == Sugared("none", NoPy, NoModule, NoMethod, "", 0)
PythonValue(self) == Sugared("python value", self, NoModule, NoMethod, "", 0)
ConstantPythonValue(self) == Sugared("constant python value", self, NoModule, NoMethod, "", 0)
BuiltinFunction(name) == Sugared("builtin", NoPy, NoModule, NoMethod, name, 0)
MethodValue(module, method) == Sugared("method", NoPy, module, method, "", 0)
ModuleValue(module) == Sugared("module", NoPy, module, NoMethod, "", 0)
SimpleValue(value) == Sugared("value", NoPy, NoModule, NoMethod, "", value)

(***************************************************************************)
(* The outcome of a handler: what it returned or threw, the caller's       *)
(* Method as it leaves it, and its accesses to the Python interpreter in   *)
(* order ("AutoGIL" and "~AutoGIL" are the construction and destruction of *)
(* the scoped lock).                                                       *)
(***************************************************************************)
Outcome(err, sv, values, g, py) ==
  [err |-> err, sv |-> sv, values |-> values, m |-> g, py |-> py]

Throw(err, g, py) == Outcome(err, NoValue, <<>>, g, py)
ReturnSugared(sv, g, py) == Outcome(NoError, sv, <<>>, g, py)
ReturnValues(values, g, py) == Outcome(NoError, NoValue, values, g, py)

Threw(o) == o.err # NoError

\* ensureSizeMatches comparing correctly but reporting the two sizes swapped
ensureSizeMatches_swapped(expected, actual, what) ==
  IF expected # actual
  THEN Error("expected ... but found", what, actual, expected)
  ELSE NoError

\* ensureSizeMatches: the error it throws, NoError when the sizes match
ensureSizeMatches(expected, actual, what) ==
  IF expected # actual
  THEN Error("expected ... but found", what, expected, actual)
  ELSE NoError

(***************************************************************************)
(* PythonValue                                                             *)
(***************************************************************************)
\* PythonValue::call with the output loop running once too often
PythonValue_call_extraOutput(self, caller, inputs, attributes, n_outputs) ==
  IF attributes > 0
  THEN Throw(Error("keyword arguments in Python calls aren't supported", "", 0, 0),
             caller, <<>>)
  ELSE LET cconv == [i \in 1..Len(inputs) |-> "t"]
           outputs == addOutputs(caller, n_outputs + 1)
           new_node == Node("PythonOp", self, cconv, inputs, outputs, "", 0)
       IN  ReturnValues(outputs, takeUnique(insertNode(caller, new_node), n_outputs + 1), <<>>)

\* PythonValue::call
PythonValue_call(self, caller, inputs, attributes, n_outputs) ==
  IF attributes > 0
  THEN Throw(Error("keyword arguments in Python calls aren't supported", "", 0, 0),
             caller, <<>>)
  ELSE LET cconv == [i \in 1..Len(inputs) |-> "t"]
           outputs == addOutputs(caller, n_outputs)
           new_node == Node("PythonOp", self, cconv, inputs, outputs, "", 0)
       IN  ReturnValues(outputs, takeUnique(insertNode(caller, new_node), n_outputs), <<>>)

\* PythonValue::isBuiltinModule
isBuiltinModule(self) == self = py_torch \/ self = py_functional

\* PythonValue::attr traversing into any member that is a module
PythonValue_attr_anyModuleMember(self, caller, field, member) ==
  IF member = NoPy
  THEN Throw(Error("object has no attribute", field, 0, 0), caller, <<"getattr">>)
  ELSE IF isBuiltinModule(self) /\ isinstance_function(member)
  THEN ReturnSugared(BuiltinFunction(field), caller, <<"getattr", "import", "is">>)
  ELSE IF isinstance_module(self) \/ isinstance_module(member)
  THEN ReturnSugared(PythonValue(member), caller, <<"getattr", "import", "is">>)
  ELSE Throw(Error("unsupported attribute lookup on", "", 0, 0),
             caller, <<"getattr", "import", "is">>)

\* PythonValue::attr; member is what Python answers to getattr(self, field),
\* NoPy when it raises
PythonValue_attr(self, caller, field, member) ==
  IF member = NoPy
  THEN Throw(Error("object has no attribute", field, 0, 0), caller, <<"getattr">>)
  ELSE IF isBuiltinModule(self) /\ isinstance_function(member)
  THEN ReturnSugared(BuiltinFunction(field), caller, <<"getattr", "import", "is">>)
  ELSE IF isinstance_module(self) /\ isinstance_module(member)
  THEN ReturnSugared(PythonValue(member), caller, <<"getattr", "import", "is">>)
  ELSE Throw(Error("unsupported attribute lookup on", "", 0, 0),
             caller, <<"getattr", "import", "is">>)

\* SugaredValue::asValue, which PythonValue does not override
SugaredValue_asValue(self, caller) ==
  Throw(Error("cannot be used as a value", "", 0, 0), caller, <<>>)

\* SugaredValue::call, which SimpleValue does not override
SugaredValue_call(caller) ==
  Throw(Error("cannot call a value", "", 0, 0), caller, <<>>)

(***************************************************************************)
(* ConstantPythonValue                                                     *)
(***************************************************************************)
\* ConstantPythonValue::createConstant
createConstant(caller, scalar, val) ==
  LET g == createConstantNode(caller, scalar, val)
  IN  Outcome(NoError, SimpleValue(lastOutputs(g)[1]), lastOutputs(g), g, <<>>)

\* ConstantPythonValue::asValue
ConstantPythonValue_asValue(self, caller) ==
  IF isinstance_int(self)
  THEN IF cast_int32_fits(self)
       THEN createConstant(caller, "kInt", number(self))
       ELSE Throw(Error("cast_error", "int32_t", 0, 0), caller, <<>>)
  ELSE IF isinstance_float(self)
  THEN createConstant(caller, "kFloat", number(self))
  ELSE IF isinstance_bool(self)
  THEN createConstant(caller, "kByte", number(self))
  ELSE SugaredValue_asValue(self, caller)

(***************************************************************************)
(* pythonResolver                                                          *)
(***************************************************************************)
\* the Resolver pythonResolver returns; obj is what rcb(name) answers,
\* NoPy when it raises
pythonResolver(name, caller, obj) ==
  IF obj = NoPy
  THEN Throw(Error("rcb raised", name, 0, 0), caller, <<"AutoGIL", "rcb", "~AutoGIL">>)
  ELSE IF obj = py_none
  THEN ReturnSugared(NoValue, caller, <<"AutoGIL", "rcb", "~AutoGIL">>)
  ELSE ReturnSugared(PythonValue(obj), caller, <<"AutoGIL", "rcb", "~AutoGIL">>)

(***************************************************************************)
(* MethodValue                                                             *)
(***************************************************************************)
\* MethodValue::call without the keyword-argument check
MethodValue_call_keywordsIgnored(method, caller, inputs, attributes, n_outputs) ==
  IF ensureSizeMatches(method.num_inputs, Len(inputs), "inputs") # NoError
  THEN Throw(ensureSizeMatches(method.num_inputs, Len(inputs), "inputs"), caller, <<>>)
  ELSE LET g == emit_call_to(caller, method, inputs)
           outputs == lastOutputs(g)
       IN  IF ensureSizeMatches(Len(outputs), n_outputs, "outputs") # NoError
           THEN Throw(ensureSizeMatches(Len(outputs), n_outputs, "outputs"), g, <<>>)
           ELSE ReturnValues(outputs, g, <<>>)

\* MethodValue::call emitting the call before it checks the number of inputs
MethodValue_call_emitFirst(method, caller, inputs, attributes, n_outputs) ==
  IF attributes # 0
  THEN Throw(Error("not yet implemented - calls to python functions using keyword arguments",
                   "", 0, 0), caller, <<>>)
  ELSE LET g == emit_call_to(caller, method, inputs)
           outputs == lastOutputs(g)
       IN  IF ensureSizeMatches(method.num_inputs, Len(inputs), "inputs") # NoError
           THEN Throw(ensureSizeMatches(method.num_inputs, Len(inputs), "inputs"), g, <<>>)
           ELSE IF ensureSizeMatches(Len(outputs), n_outputs, "outputs") # NoError
           THEN Throw(ensureSizeMatches(Len(outputs), n_outputs, "outputs"), g, <<>>)
           ELSE ReturnValues(outputs, g, <<>>)

\* MethodValue::call
MethodValue_call(method, caller, inputs, attributes, n_outputs) ==
  IF attributes # 0
  THEN Throw(Error("not yet implemented - calls to python functions using keyword arguments",
                   "", 0, 0), caller, <<>>)
  ELSE IF ensureSizeMatches(method.num_inputs, Len(inputs), "inputs") # NoError
  THEN Throw(ensureSizeMatches(method.num_inputs, Len(inputs), "inputs"), caller, <<>>)
  ELSE LET g == emit_call_to(caller, method, inputs)
           outputs == lastOutputs(g)
       IN  IF ensureSizeMatches(Len(outputs), n_outputs, "outputs") # NoError
           THEN Throw(ensureSizeMatches(Len(outputs), n_outputs, "outputs"), g, <<>>)
           ELSE ReturnValues(outputs, g, <<>>)

(***************************************************************************)
(* ModuleValue                                                             *)
(***************************************************************************)
\* what Python answers about a field of the module's Python object: attr is
\* the attribute (NoPy when there is none), constant tells whether
\* _constants_set contains the field
PyAnswer(attr, constant) == [attr |-> attr, constant |-> constant]
PyAnswers == {PyAnswer(a, c) : a \in PyObjects \cup {NoPy}, c \in BOOLEAN}

\* py::getattr(obj, name, default)
getattr_default(attr, default) == IF attr = NoPy THEN default ELSE attr

\* the fallback of ModuleValue::attr to the module's Python object
ModuleValue_attr_python(caller, field, py) ==
  LET attr == getattr_default(py.attr, py_none)
  IN  IF handle_bool(attr)
      THEN IF isinstance_function(attr) \/ isinstance_nn_Module(attr)
           THEN ReturnSugared(PythonValue(attr), caller, <<"getattr", "isinstance">>)
           ELSE IF py.constant
           THEN ReturnSugared(ConstantPythonValue(attr), caller,
                              <<"getattr", "isinstance", "contains">>)
           ELSE Throw(Error("is not usable in a script method", field, 0, 0),
                      caller, <<"getattr", "isinstance", "contains">>)
      ELSE Throw(Error("module has no attribute", field, 0, 0), caller, <<"getattr">>)

\* ModuleValue::attr looking for a method before a submodule
ModuleValue_attr_methodFirst(module, caller, field, py) ==
  IF find_method(module, field)
  THEN ReturnSugared(MethodValue(module, module.methods[field]), caller, <<>>)
  ELSE IF find_module(module, field)
  THEN ReturnSugared(ModuleValue(module.modules[field]), caller, <<>>)
  ELSE IF find_parameter(module, field)
  THEN ReturnSugared(
         SimpleValue(get_or_add_parameter_value(caller, module.parameters[field])),
         get_or_add_parameter(caller, module.parameters[field]), <<>>)
  ELSE ModuleValue_attr_python(caller, field, py)

\* ModuleValue::attr testing _constants_set before the type of the attribute
ModuleValue_attr_constantFirst(module, caller, field, py) ==
  IF find_module(module, field)
  THEN ReturnSugared(ModuleValue(module.modules[field]), caller, <<>>)
  ELSE IF find_method(module, field)
  THEN ReturnSugared(MethodValue(module, module.methods[field]), caller, <<>>)
  ELSE IF find_parameter(module, field)
  THEN ReturnSugared(
         SimpleValue(get_or_add_parameter_value(caller, module.parameters[field])),
         get_or_add_parameter(caller, module.parameters[field]), <<>>)
  ELSE LET attr == getattr_default(py.attr, py_none)
       IN  IF py.constant
           THEN ReturnSugared(ConstantPythonValue(attr), caller,
                              <<"getattr", "contains">>)
           ELSE IF isinstance_function(attr) \/ isinstance_nn_Module(attr)
           THEN ReturnSugared(PythonValue(attr), caller,
                              <<"getattr", "contains", "isinstance">>)
           ELSE Throw(Error("is not usable in a script method", field, 0, 0),
                      caller, <<"getattr", "contains", "isinstance">>)

\* ModuleValue::attr
ModuleValue_attr(module, caller, field, py) ==
  IF find_module(module, field)
  THEN ReturnSugared(ModuleValue(module.modules[field]), caller, <<>>)
  ELSE IF find_method(module, field)
  THEN ReturnSugared(MethodValue(module, module.methods[field]), caller, <<>>)
  ELSE IF find_parameter(module, field)
  THEN ReturnSugared(
         SimpleValue(get_or_add_parameter_value(caller, module.parameters[field])),
         get_or_add_parameter(caller, module.parameters[field]), <<>>)
  ELSE ModuleValue_attr_python(caller, field, py)

RECURSIVE ModuleValue_call(_, _, _, _, _, _)

\* the call of the SugaredValue that ModuleValue::attr returned
SugaredValue_dispatch_call(sv, caller, inputs, attributes, n_outputs, py) ==
  CASE sv.kind \in {"python value", "constant python value"} ->
         PythonValue_call(sv.self, caller, inputs, attributes, n_outputs)
    [] sv.kind = "method" ->
         MethodValue_call(sv.method, caller, inputs, attributes, n_outputs)
    [] sv.kind = "module" ->
         ModuleValue_call(sv.module, caller, inputs, attributes, n_outputs, py)
    [] OTHER -> SugaredValue_call(caller)

\* ModuleValue::call
ModuleValue_call(module, caller, inputs, attributes, n_outputs, py) ==
  LET a == ModuleValue_attr(module, caller, "forward", py)
  IN  IF Threw(a)
      THEN a
      ELSE LET c == SugaredValue_dispatch_call(a.sv, a.m, inputs, attributes, n_outputs, py)
           IN  [c EXCEPT !.py = a.py \o @]

(***************************************************************************)
(* The compiler.  defineMethodsInModule creates the Method and compiles    *)
(* its body, which reaches one of the handlers above; after the handler    *)
(* returned or threw, the next definition is compiled.                     *)
(***************************************************************************)
\* a Method as created, with its formal inputs
NewMethod == [nodes |-> <<>>, member_inputs |-> <<>>, next_unique |-> MaxArgs + 1]

RECURSIVE EarlierNodes(_, _)
\* the Method after the compiler emitted p constants for earlier statements
EarlierNodes(g, p) ==
  IF p = 0 THEN g ELSE EarlierNodes(createConstantNode(g, "kInt", 0), p - 1)

\* the Values a call may be given: sequences of formal inputs
InputSeqs == UNION {[1..n -> 1..MaxArgs] : n \in 0..MaxArgs}

\* the first n formal inputs, in order
FormalArgs(n) == [i \in 1..n |-> i]

\* the answer of Python that a handler did not ask for
Unasked == PyAnswer(Py("unasked", "", 0, 0), FALSE)

Asked(o) == \E i \in 1..Len(o.py) : o.py[i] = "getattr"

Step(op, self, module, method, field, py, inputs, attributes, n_outputs, out) ==
  [op |-> op, self |-> self, module |-> module, method |-> method, field |-> field,
   py |-> py, inputs |-> inputs, attributes |-> attributes, n_outputs |-> n_outputs,
   before |-> m, out |-> out]

Idle(op) ==
  [op |-> op, self |-> NoPy, module |-> NoModule, method |-> NoMethod, field |-> "",
   py |-> Unasked, inputs |-> <<>>, attributes |-> 0, n_outputs |-> 0,
   before |-> NewMethod, out |-> ReturnValues(<<>>, NewMethod, <<>>)]

Init ==
  /\ m = NewMethod
  /\ last = Idle("define")

\* _create_method / _define / _jit_script_compile: a new Method is compiled
define ==
  \E p \in 0..MaxEarlier :
    /\ m' = EarlierNodes(NewMethod, p)
    /\ last' = Idle("define")

Compiling == last.op = "define"

Resolve ==
  /\ Compiling
  /\ \E name \in Fields, obj \in PyObjects \cup {NoPy} :
       LET out == pythonResolver(name, m, obj)
       IN  /\ last' = Step("resolve", NoPy, NoModule, NoMethod, name,
                           PyAnswer(obj, FALSE), <<>>, 0, 0, out)
           /\ m' = out.m

PythonCall ==
  /\ Compiling
  /\ \E self \in PyObjects, inputs \in InputSeqs,
        attributes \in 0..MaxAttributes, n_outputs \in 0..MaxOutputs :
       LET out == PythonValue_call(self, m, inputs, attributes, n_outputs)
       IN  /\ last' = Step("PythonValue::call", self, NoModule, NoMethod, "",
                           Unasked, inputs, attributes, n_outputs, out)
           /\ m' = out.m

PythonAttr ==
  /\ Compiling
  /\ \E self \in PyObjects, field \in Fields, member \in PyObjects \cup {NoPy} :
       LET out == PythonValue_attr(self, m, field, member)
       IN  /\ last' = Step("PythonValue::attr", self, NoModule, NoMethod, field,
                           PyAnswer(member, FALSE), <<>>, 0, 0, out)
           /\ m' = out.m

ConstantAsValue ==
  /\ Compiling
  /\ \E self \in PyObjects :
       LET out == ConstantPythonValue_asValue(self, m)
       IN  /\ last' = Step("ConstantPythonValue::asValue", self, NoModule, NoMethod, "",
                           Unasked, <<>>, 0, 0, out)
           /\ m' = out.m

MethodCall ==
  /\ Compiling
  /\ \E method \in Methods, inputs \in InputSeqs,
        attributes \in 0..MaxAttributes, n_outputs \in 0..MaxOutputs :
       LET out == MethodValue_call(method, m, inputs, attributes, n_outputs)
       IN  /\ last' = Step("MethodValue::call", NoPy, NoModule, method, "",
                           Unasked, inputs, attributes, n_outputs, out)
           /\ m' = out.m

ModuleAttr ==
  /\ Compiling
  /\ \E module \in Modules, field \in Fields, py \in PyAnswers \cup {Unasked} :
       LET out == ModuleValue_attr(module, m, field, py)
       IN  /\ Asked(out) <=> py # Unasked
           /\ last' = Step("ModuleValue::attr", NoPy, module, NoMethod, field,
                           py, <<>>, 0, 0, out)
           /\ m' = out.m

ModuleCall ==
  /\ Compiling
  /\ \E module \in Modules, n \in 0..MaxArgs, py \in PyAnswers \cup {Unasked},
        attributes \in 0..MaxAttributes, n_outputs \in 0..MaxOutputs :
       LET out == ModuleValue_call(module, m, FormalArgs(n), attributes, n_outputs, py)
       IN  /\ Asked(out) <=> py # Unasked
           /\ last' = Step("ModuleValue::call", NoPy, module, NoMethod, "forward",
                           py, FormalArgs(n), attributes, n_outputs, out)
           /\ m' = out.m

Next ==
  \/ define
  \/ Resolve
  \/ PythonCall
  \/ PythonAttr
  \/ ConstantAsValue
  \/ MethodCall
  \/ ModuleAttr
  \/ ModuleCall

Spec == Init /\ [][Next]_vars

(***************************************************************************)
(* Properties.  Each is stated about the handler that ran last: its        *)
(* arguments are in last, the Method before it in last.before, and its     *)
(* outcome in last.out.                                                    *)
(***************************************************************************)
Has(map, field) == field \in DOMAIN map
Unchanged == last.out.m = last.before
\* the nodes the handler inserted into the caller's graph
Inserted == SubSeq(last.out.m.nodes, Len(last.before.nodes) + 1, Len(last.out.m.nodes))
PrefixKept ==
  /\ Len(last.out.m.nodes) >= Len(last.before.nodes)
  /\ SubSeq(last.out.m.nodes, 1, Len(last.before.nodes)) = last.before.nodes
Range(seq) == {seq[i] : i \in 1..Len(seq)}
KeywordErrors ==
  { "keyword arguments in Python calls aren't supported",
    "not yet implemented - calls to python functions using keyword arguments" }

\* C1: ModuleValue::attr returns the first match in the order submodule,
\* method, parameter -- a ModuleValue of the submodule, else a MethodValue of
\* this module and the method, else a SimpleValue of the parameter's graph
\* input, which is registered in the caller -- and whenever one of the three
\* matches, Python is not asked for the attribute.
C1_AttrPrecedence ==
  last.op = "ModuleValue::attr" =>
    LET module == last.module
        field == last.field
        out == last.out
    IN  /\ Has(module.modules, field) =>
              /\ ~Threw(out)
              /\ out.sv = ModuleValue(module.modules[field])
              /\ out.py = <<>>
              /\ Unchanged
        /\ (~Has(module.modules, field) /\ Has(module.methods, field)) =>
              /\ ~Threw(out)
              /\ out.sv = MethodValue(module, module.methods[field])
              /\ out.py = <<>>
              /\ Unchanged
        /\ (~Has(module.modules, field) /\ ~Has(module.methods, field)
               /\ Has(module.parameters, field)) =>
              /\ ~Threw(out)
              /\ out.sv.kind = "value"
              /\ [slot |-> module.parameters[field], value |-> out.sv.value]
                    \in Range(out.m.member_inputs)
              /\ out.m.nodes = last.before.nodes
              /\ out.py = <<>>

\* a submodule, a method and a parameter share the name, and the submodule won
C1_Witness ==
  /\ last.op = "ModuleValue::attr"
  /\ Has(last.module.modules, last.field)
  /\ Has(last.module.methods, last.field)
  /\ Has(last.module.parameters, last.field)
  /\ last.out.sv.kind = "module"

\* the module whose "forward" a call of the module ends at: submodules named
\* "forward" are followed
RECURSIVE ForwardOwner(_)
ForwardOwner(module) ==
  IF Has(module.modules, "forward") THEN ForwardOwner(module.modules["forward"]) ELSE module

IsCall == last.op \in {"PythonValue::call", "MethodValue::call", "ModuleValue::call"}

\* C2 as stated: every call with keyword arguments, on a PythonValue, a
\* MethodValue or a ModuleValue, fails with a keyword-arguments error.
C2_Original ==
  (IsCall /\ last.attributes > 0) => last.out.err.msg \in KeywordErrors

\* C2 amended: every call with keyword arguments fails and inserts no node;
\* the error is the keyword-arguments error on a PythonValue, on a MethodValue,
\* and on a ModuleValue whose "forward" resolves to a method or to a Python
\* attribute that attr accepts; when "forward" resolves to a parameter the
\* error is that a value cannot be called, and when attr("forward") throws the
\* error is attr's.
C2_KeywordArguments ==
  (IsCall /\ last.attributes > 0) =>
    /\ Threw(last.out)
    /\ last.out.values = <<>>
    /\ last.out.m.nodes = last.before.nodes
    /\ last.op \in {"PythonValue::call", "MethodValue::call"} =>
          last.out.err.msg \in KeywordErrors
    /\ last.op = "ModuleValue::call" =>
          LET owner == ForwardOwner(last.module)
              attr == getattr_default(last.py.attr, py_none)
          IN  IF Has(owner.methods, "forward")
              THEN last.out.err.msg \in KeywordErrors
              ELSE IF Has(owner.parameters, "forward")
              THEN last.out.err.msg = "cannot call a value"
              ELSE IF isinstance_function(attr) \/ isinstance_nn_Module(attr)
                      \/ last.py.constant
              THEN last.out.err.msg \in KeywordErrors
              ELSE last.out.err.msg = "is not usable in a script method"

\* a module whose "forward" is a submodule holding a method "forward" was
\* called with a keyword argument
C2_Witness ==
  /\ last.op = "ModuleValue::call"
  /\ last.attributes > 0
  /\ Has(last.module.modules, "forward")
  /\ Has(ForwardOwner(last.module).methods, "forward")
  /\ last.out.err.msg \in KeywordErrors

\* C3: a MethodValue call without keyword arguments, of a method with n
\* inputs and k outputs, given m inputs and asked for r outputs: throws
\* "expected n inputs but found m" when m # n; throws the same error about
\* outputs when m = n and r # k; returns the k outputs of the call, in
\* order, exactly when m = n and r = k.
C3_MethodArity ==
  (last.op = "MethodValue::call" /\ last.attributes = 0) =>
    LET n == last.method.num_inputs
        k == last.method.num_outputs
        given == Len(last.inputs)
        r == last.n_outputs
        out == last.out
    IN  /\ given # n =>
              out.err = Error("expected ... but found", "inputs", n, given)
        /\ (given = n /\ r # k) =>
              out.err = Error("expected ... but found", "outputs", k, r)
        /\ (given = n /\ r = k) =>
              /\ ~Threw(out)
              /\ Len(out.values) = k
              /\ out.values = lastOutputs(out.m)
        /\ ~Threw(out) => (given = n /\ r = k)

\* a method of 2 inputs was given 1 input
C3_Witness ==
  /\ last.op = "MethodValue::call"
  /\ last.attributes = 0
  /\ last.method.num_inputs = MaxArgs
  /\ Len(last.inputs) = MaxArgs - 1
  /\ last.out.err.what = "inputs"

\* the module registers nothing under the field
NothingRegistered ==
  /\ ~Has(last.module.modules, last.field)
  /\ ~Has(last.module.methods, last.field)
  /\ ~Has(last.module.parameters, last.field)

\* C4: when no submodule, method or parameter has the name and the module's
\* Python object has the attribute, ModuleValue::attr returns a PythonValue of
\* it if it is callable or an nn.Module (also when the name is in
\* _constants_set), else a ConstantPythonValue of it if the name is in
\* _constants_set, else throws that it is not usable in a script method.
C4_PythonAttribute ==
  (last.op = "ModuleValue::attr" /\ NothingRegistered /\ last.py.attr \in PyObjects) =>
    LET attr == last.py.attr
        out == last.out
    IN  IF isinstance_function(attr) \/ isinstance_nn_Module(attr)
        THEN ~Threw(out) /\ out.sv = PythonValue(attr)
        ELSE IF last.py.constant
        THEN ~Threw(out) /\ out.sv = ConstantPythonValue(attr)
        ELSE out.err.msg = "is not usable in a script method" /\ out.sv = NoValue

\* the attribute exists, is data and is not declared constant: attr throws
C4_Witness ==
  /\ last.op = "ModuleValue::attr"
  /\ NothingRegistered
  /\ last.py.attr = py_int
  /\ ~last.py.constant
  /\ last.out.err.msg = "is not usable in a script method"

\* C5: when no submodule, method or parameter has the name and the module's
\* Python object has no such attribute, ModuleValue::attr throws "module has
\* no attribute", whether or not the name is in _constants_set.
C5_NoAttribute ==
  (last.op = "ModuleValue::attr" /\ NothingRegistered /\ last.py.attr = NoPy) =>
    /\ last.out.err.msg = "module has no attribute"
    /\ last.out.sv = NoValue

\* C6: ConstantPythonValue::asValue inserts exactly one constant, kInt for a
\* Python int, kFloat for a Python float, kByte for a Python bool, and for
\* every other object throws and inserts nothing.  Stated for the objects
\* whose number fits int32_t, the width of the kInt constant.
C6_ConstantKind ==
  (last.op = "ConstantPythonValue::asValue" /\ cast_int32_fits(last.self)) =>
    LET kind == CASE last.self.type = "int" -> "kInt"
                  [] last.self.type = "float" -> "kFloat"
                  [] last.self.type = "bool" -> "kByte"
                  [] OTHER -> ""
    IN  IF kind # ""
        THEN /\ ~Threw(last.out)
             /\ PrefixKept
             /\ Len(Inserted) = 1
             /\ Inserted[1].kind = "Constant"
             /\ Inserted[1].scalar = kind
             /\ Inserted[1].inputs = <<>>
        ELSE Threw(last.out) /\ Unchanged

IsPythonAccess(e) == e \in {"rcb", "getattr", "import", "is", "isinstance", "contains"}
\* the AutoGILs in scope before the i-th access of the handler
HeldAt(py, i) ==
  Cardinality({j \in 1..(i - 1) : py[j] = "AutoGIL"})
    - Cardinality({j \in 1..(i - 1) : py[j] = "~AutoGIL"})

\* C7: every access of a handler to Python (the resolver callback, attribute
\* introspection, the identity check against torch and torch.nn.functional)
\* is made with an AutoGIL of this file in scope, and no AutoGIL outlives the
\* handler.
C7_LockHeld ==
  /\ \A i \in 1..Len(last.out.py) :
        IsPythonAccess(last.out.py[i]) => HeldAt(last.out.py, i) > 0
  /\ HeldAt(last.out.py, Len(last.out.py) + 1) = 0

\* C8: a PythonValue call without keyword arguments succeeds and inserts
\* exactly one PythonOp: its inputs are the inputs given, in order, its cconv
\* has one tag per input, and the values returned are its n_outputs outputs,
\* all new and distinct, in creation order.
C8_PythonCall ==
  (last.op = "PythonValue::call" /\ last.attributes = 0) =>
    /\ ~Threw(last.out)
    /\ PrefixKept
    /\ Len(Inserted) = 1
    /\ Inserted[1].kind = "PythonOp"
    /\ Inserted[1].fn = last.self
    /\ Inserted[1].inputs = last.inputs
    /\ Inserted[1].cconv = [i \in 1..Len(last.inputs) |-> "t"]
    /\ Inserted[1].outputs = last.out.values
    /\ Len(last.out.values) = last.n_outputs
    /\ \A i, j \in 1..Len(last.out.values) :
          i < j => last.out.values[i] < last.out.values[j]
    /\ \A i \in 1..Len(last.out.values) :
          /\ last.out.values[i] >= last.before.next_unique
          /\ last.out.values[i] < last.out.m.next_unique

\* two inputs in swapped order, two outputs, after an earlier node
C8_Witness ==
  /\ last.op = "PythonValue::call"
  /\ last.attributes = 0
  /\ last.inputs = <<2, 1>>
  /\ last.n_outputs = MaxOutputs
  /\ Len(last.before.nodes) > 0
  /\ Len(last.out.values) = MaxOutputs

\* C9: PythonValue::attr returns a value in two cases only: a BuiltinFunction
\* when self is torch or torch.nn.functional and the member is callable, and a
\* PythonValue of the member when self and the member are Python modules.  It
\* throws otherwise; for a self that is neither a module nor torch or
\* torch.nn.functional it throws for every field and member.
C9_PythonAttr ==
  last.op = "PythonValue::attr" =>
    LET self == last.self
        member == last.py.attr
        out == last.out
        allowed == self \in {py_torch, py_functional}
    IN  /\ ~Threw(out) =>
              \/ (out.sv = BuiltinFunction(last.field) /\ allowed
                    /\ member # NoPy /\ isinstance_function(member))
              \/ (out.sv = PythonValue(member) /\ self.type = "module"
                    /\ member.type = "module")
        /\ (allowed /\ member # NoPy /\ isinstance_function(member)) =>
              out.sv = BuiltinFunction(last.field)
        /\ (self.type = "module" /\ member.type = "module") => ~Threw(out)
        /\ (self.type # "module" /\ ~allowed) => (Threw(out) /\ out.sv = NoValue)
        /\ Unchanged

\* self is an int, the member exists and is callable, and attr throws
C9_Witness ==
  /\ last.op = "PythonValue::attr"
  /\ last.self = py_int
  /\ last.py.attr = py_relu
  /\ Threw(last.out)

\* C10: MethodValue::call checks keyword arguments, then the number of
\* inputs, then emits the call, then checks the number of outputs: the call
\* is emitted iff there are no keyword arguments and the number of inputs is
\* the method's; a failure on keyword arguments or inputs leaves the caller
\* unchanged, and a failure on outputs comes with the call emitted.
C10_MethodCallOrder ==
  last.op = "MethodValue::call" =>
    LET emitted == last.attributes = 0 /\ Len(last.inputs) = last.method.num_inputs
        out == last.out
    IN  /\ emitted =>
              /\ PrefixKept
              /\ Len(Inserted) = 1
              /\ Inserted[1].kind = "Call"
              /\ Inserted[1].inputs = last.inputs
        /\ ~emitted => (Unchanged /\ Threw(out))
        /\ last.attributes > 0 => out.err.msg \in KeywordErrors
        /\ (last.attributes = 0 /\ ~emitted) => out.err.what = "inputs"
        /\ out.err.what = "outputs" => (emitted /\ ~Unchanged)
        /\ (emitted /\ last.n_outputs # last.method.num_outputs) =>
              out.err.what = "outputs"

\* the call was emitted and the output count then did not match
C10_Witness ==
  /\ last.op = "MethodValue::call"
  /\ last.out.err.what = "outputs"
  /\ Len(last.out.m.nodes) = Len(last.before.nodes) + 1
  /\ Len(last.before.nodes) > 0

====
